---- MODULE Spec2Model ----
(***************************************************************************)
(* Model of google_analytics/__init__.py: the pagination loop of           *)
(* GoogleAnalytics.get_full_report over GoogleAnalytics.get_report, the    *)
(* header normalisation del_ga and the flattening response_to_data_frame.  *)
(*                                                                         *)
(* Python values are modelled as follows.                                  *)
(*   - A dict entry that code reads with .get(key) is an option record     *)
(*     [key, val]: key = "absent" (no such key), "none" (key bound to      *)
(*     None) or "value" (key bound to val).                                *)
(*   - A list is a sequence, a dict built by the code (df_row) is a        *)
(*     function from its keys to its values.                               *)
(*   - A header name that del_ga slices is a sequence of one-character     *)
(*     strings; elsewhere names are strings.                               *)
(*   - An exception leaving a function is recorded by its class name.      *)
(***************************************************************************)
EXTENDS Integers, Sequences, FiniteSets, TLC

VARIABLES
    pc,               \* position of the caller: "call", "loop", "done", "raised", "framed", "frame_raised"
    args,             \* arguments of the get_full_report call
    response,         \* local `response` of get_full_report (the first page)
    rows,             \* local `rows` of get_full_report
    next_page_token,  \* local `next_page_token` of get_full_report
    requests,         \* request bodies handed to batchGet, in call order
    pages,            \* what the service answered, in call order
    result,           \* value returned by get_full_report / handed to del_ga and response_to_data_frame
    raised,           \* class of the exception that left the running function, "" when none
    frame,            \* list of records handed to pd.DataFrame
    original,         \* header names before the first del_ga application
    applications      \* number of del_ga applications so far

vars == <<pc, args, response, rows, next_page_token, requests, pages, result,
          raised, frame, original, applications>>

----------------------------------------------------------------------------
(* Bounds of the model *)

\* Most batchGet calls one get_full_report run is followed through.
MaxCalls == 3

\* Longest header name (in characters) handed to del_ga.
MaxLen == 4

\* Most del_ga applications to one response.
MaxApply == 2

----------------------------------------------------------------------------
(* Python values *)

Absent == [key |-> "absent", val |-> <<>>]
NoneVal == [key |-> "none", val |-> <<>>]
Some(v) == [key |-> "value", val |-> v]

\* dict.get(key): None for a missing key and for a key bound to None
Get(opt) == IF opt.key = "value" THEN opt ELSE NoneVal

\* dict.get(key, default): the default only for a missing key
GetDefault(opt, default) == IF opt.key = "absent" THEN Some(default) ELSE opt

IsNone(opt) == opt.key # "value"

Min(a, b) == IF a < b THEN a ELSE b

EmptyDict == [k \in {} |-> ""]

\* d[k] = v on a dict
Put(d, k, v) == [x \in (DOMAIN d) \cup {k} |-> IF x = k THEN v ELSE d[x]]

\* s[n:] on a Python sequence (1-based here): empty when n >= len(s)
SliceFrom(s, n) == IF n >= Len(s) THEN <<>> ELSE SubSeq(s, n + 1, Len(s))

\* s[:n]
SliceTo(s, n) == SubSeq(s, 1, Min(n, Len(s)))

----------------------------------------------------------------------------
(* Responses of the Reporting API *)

NoToken == [key |-> "none", val |-> ""]
Token(t) == [key |-> "value", val |-> t]

\* one entry of reports[]: columnHeader, data.rows and nextPageToken
Report(dims, mets, rowsOpt, tokenOpt) ==
    [columnHeader |-> [dimensions |-> dims,
                       metricHeader |-> [metricHeaderEntries |-> mets]],
     data |-> [rows |-> rowsOpt],
     nextPageToken |-> tokenOpt]

\* a row of data.rows: dimension values and one metric-value group per date range
Row(dimensions, groups) == [dimensions |-> dimensions, metrics |-> groups]
Group(values) == [values |-> values]

RowA == Row(<<"20200901", "google / cpc">>, <<Group(<<"42">>)>>)
RowB == Row(<<"20200902">>, <<Group(<<"7", "8">>), Group(<<"9">>)>>)

\* data.rows of a page: no such key, an empty list, or rows
PageRows == {Absent, Some(<<>>), Some(<<RowA>>), Some(<<RowB, RowA>>)}

\* nextPageToken of a page: none, the empty string, or a token
PageTokens == {NoToken, Token(""), Token("t1")}

HeadersA == [dimensions |-> <<"ga:date", "ga:sourceMedium">>,
             metrics |-> <<[name |-> "ga:sessions"]>>]
HeadersB == [dimensions |-> <<"ga:date">>,
             metrics |-> <<[name |-> "ga:users"], [name |-> "ga:sessions"]>>]
PageHeaders == {HeadersA, HeadersB}

\* what batchGet(...).execute() does: it raises (fails) or returns a body with one report
Failure == [fails |-> TRUE, body |-> [reports |-> <<>>]]
Page(h, r, t) == [fails |-> FALSE,
                  body |-> [reports |-> <<Report(h.dimensions, h.metrics, r, t)>>]]
Answers == {Failure} \cup {Page(h, r, t) : h \in PageHeaders, r \in PageRows, t \in PageTokens}

----------------------------------------------------------------------------
(* get_report *)

\* the request body of one batchGet call
get_report(profile_id, dimensions, metrics, filters, date_from, date_to, page_size, token) ==
    [viewId |-> profile_id,
     dateRanges |-> <<[startDate |-> date_from, endDate |-> date_to]>>,
     dimensions |-> dimensions,
     metrics |-> metrics,
     samplingLevel |-> "LARGE",
     pageSize |-> page_size,
     pageToken |-> token,
     dimensionFilterClauses |-> <<filters>>]

\* default of get_report's page_size parameter
DefaultPageSize == 1000

----------------------------------------------------------------------------
(* get_full_report *)

\* arguments a caller passes to get_full_report
Calls ==
    [profile_id : {"view"},
     dimensions : {<<[name |-> "ga:date"], [name |-> "ga:sourceMedium"]>>},
     metrics : {<<[expression |-> "ga:sessions"]>>},
     filters : {[operator |-> "OR"]},
     date_from : {"2020-09-01"},
     date_to : {"2020-09-01"},
     page_size : {500, DefaultPageSize},
     next_page_token : {NoToken, Token("t0")}]

\* the first call of get_report
FirstRequest(a) ==
    get_report(a.profile_id, a.dimensions, a.metrics, a.filters, a.date_from,
               a.date_to, a.page_size, a.next_page_token)

LoopRequestDefaultSize(a, token) ==
    get_report(a.profile_id, a.dimensions, a.metrics, a.filters, a.date_from,
               a.date_to, DefaultPageSize, token)

\* the call of get_report in the loop
LoopRequest(a, token) ==
    get_report(a.profile_id, a.dimensions, a.metrics, a.filters, a.date_from,
               a.date_to, a.page_size, token)

\* the loop condition, `while next_page_token is not None`
LoopConditionTruthy(token) == token.key # "none" /\ token.val # ""

LoopCondition(token) == token.key # "none"

\* rows.extend(next_page rows): the effect on response, whose data.rows is
\* the list that `rows` names
ExtendIntoNextPage(resp, next_page) ==
    [next_page EXCEPT !.reports[1].data.rows =
        Some(resp.reports[1].data.rows.val \o @.val)]

Extend(resp, next_page) ==
    [resp EXCEPT !.reports[1].data.rows =
        Some(@.val \o next_page.reports[1].data.rows.val)]

\* response['reports'][0]['data']['rows'] = rows
SetRows(resp, r) == [resp EXCEPT !.reports[1].data.rows = r]

\* the value get_full_report returns
ReturnValue(resp, r) == SetRows(resp, r)

\* rows.extend(more)
ExtendRowsReplacing(r, more) == Some(more)

ExtendRows(r, more) == Some(r.val \o more)

\* an exception leaves get_full_report, which has no handler
Swallow(exception) == pc' = "loop" /\ raised' = ""

Raise(exception) == pc' = "raised" /\ raised' = exception

Init ==
    /\ pc = "call"
    /\ args \in Calls
    /\ response = [reports |-> <<>>]
    /\ rows = NoneVal
    /\ next_page_token = NoToken
    /\ requests = <<>>
    /\ pages = <<>>
    /\ result = [reports |-> <<>>]
    /\ raised = ""
    /\ frame = <<>>
    /\ original = <<>>
    /\ applications = 0

\* response = self.get_report(...); rows = ...; next_page_token = ...
FirstFetch ==
    /\ pc = "call"
    /\ \E answer \in Answers :
        /\ requests' = Append(requests, FirstRequest(args))
        /\ pages' = Append(pages, answer)
        /\ IF answer.fails
           THEN /\ Raise("HttpError")
                /\ UNCHANGED <<response, rows, next_page_token>>
           ELSE /\ response' = answer.body
                /\ rows' = Get(answer.body.reports[1].data.rows)
                /\ next_page_token' = answer.body.reports[1].nextPageToken
                /\ pc' = "loop"
                /\ UNCHANGED raised
    /\ UNCHANGED <<args, result, frame, original, applications>>

\* one iteration of the while loop
LoopFetch ==
    /\ pc = "loop"
    /\ LoopCondition(next_page_token)
    /\ Len(requests) < MaxCalls
    /\ \E answer \in Answers :
        /\ requests' = Append(requests, LoopRequest(args, next_page_token))
        /\ pages' = Append(pages, answer)
        /\ IF answer.fails
           THEN /\ Raise("HttpError")
                /\ UNCHANGED <<response, rows, next_page_token>>
           ELSE LET more == Get(answer.body.reports[1].data.rows) IN
                /\ next_page_token' = answer.body.reports[1].nextPageToken
                /\ IF IsNone(rows)
                   THEN /\ Raise("AttributeError")
                        /\ UNCHANGED <<response, rows>>
                   ELSE IF IsNone(more)
                   THEN /\ Raise("TypeError")
                        /\ UNCHANGED <<response, rows>>
                   ELSE /\ rows' = ExtendRows(rows, more.val)
                        /\ response' = Extend(response, answer.body)
                        /\ UNCHANGED <<pc, raised>>
    /\ UNCHANGED <<args, result, frame, original, applications>>

\* the loop ends; response['reports'][0]['data']['rows'] = rows; return response
Return ==
    /\ pc = "loop"
    /\ ~LoopCondition(next_page_token)
    /\ result' = ReturnValue(response, rows)
    /\ pc' = "done"
    /\ UNCHANGED <<args, response, rows, next_page_token, requests, pages,
                   raised, frame, original, applications>>

----------------------------------------------------------------------------
(* response_to_data_frame *)

RECURSIVE ZipIntoReversed(_, _, _, _)
ZipIntoReversed(d, keys, vals, i) ==
    IF i > Min(Len(keys), Len(vals))
    THEN d
    ELSE ZipIntoReversed(Put(d, keys[i], vals[Len(vals) + 1 - i]), keys, vals, i + 1)

\* for key, value in zip(keys, vals): d[key] = value   (from position i on)
RECURSIVE ZipInto(_, _, _, _)
ZipInto(d, keys, vals, i) ==
    IF i > Min(Len(keys), Len(vals))
    THEN d
    ELSE ZipInto(Put(d, keys[i], vals[i]), keys, vals, i + 1)

\* metricHeader.get('name') of every entry
MetricNames(metric_headers) ==
    [j \in 1..Len(metric_headers) |-> metric_headers[j].name]

GroupsIntoFirstOnly(d, metric_headers, date_range_values, g) ==
    IF Len(date_range_values) = 0
    THEN d
    ELSE ZipInto(d, MetricNames(metric_headers), date_range_values[1].values, 1)

\* for _, values in enumerate(date_range_values): zip the metric headers with values
RECURSIVE GroupsInto(_, _, _, _)
GroupsInto(d, metric_headers, date_range_values, g) ==
    IF g > Len(date_range_values)
    THEN d
    ELSE GroupsInto(ZipInto(d, MetricNames(metric_headers),
                            date_range_values[g].values, 1),
                    metric_headers, date_range_values, g + 1)

\* the body of `for row in rows`: the record of one row
df_row(dimension_headers, metric_headers, row) ==
    GroupsInto(ZipInto(EmptyDict, dimension_headers, row.dimensions, 1),
               metric_headers, row.metrics, 1)

\* df_raws of one report
df_raws(report) ==
    LET report_rows == GetDefault(report.data.rows, <<>>).val IN
    [i \in 1..Len(report_rows) |->
        df_row(report.columnHeader.dimensions,
               report.columnHeader.metricHeader.metricHeaderEntries,
               report_rows[i])]

\* response_to_data_frame: the exception it raises ("" when none) and the
\* list of records it hands to pd.DataFrame
response_to_data_frame(resp) ==
    LET reports == resp.reports IN
    IF \E i \in 1..Len(reports) : GetDefault(reports[i].data.rows, <<>>).key = "none"
    THEN [raised |-> "TypeError", df |-> <<>>]
    ELSE IF Len(reports) = 0
    THEN [raised |-> "UnboundLocalError", df |-> <<>>]
    ELSE [raised |-> "", df |-> df_raws(reports[Len(reports)])]

\* report_df = response_to_data_frame(report)
ResponseToDataFrame ==
    /\ pc = "done"
    /\ LET r == response_to_data_frame(result) IN
        /\ raised' = r.raised
        /\ frame' = r.df
        /\ pc' = IF r.raised = "" THEN "framed" ELSE "frame_raised"
    /\ UNCHANGED <<args, response, rows, next_page_token, requests, pages,
                   result, original, applications>>

Next == FirstFetch \/ LoopFetch \/ Return \/ ResponseToDataFrame

Spec == Init /\ [][Next]_vars

----------------------------------------------------------------------------
(* response_to_data_frame on a response given directly *)

\* Most metric-value groups (date ranges) of a row.
MaxGroups == 2

SeqsUpTo(S, n) == UNION {[1..k -> S] : k \in 0..n}

\* value lists shorter than, as long as and longer than the header lists
ValueLists == {<<>>, <<"1">>, <<"2", "1">>, <<"1", "2", "3">>}

FrameRows ==
    {Row(d, g) : d \in ValueLists,
                 g \in SeqsUpTo({Group(v) : v \in ValueLists}, MaxGroups)}

FrameRowLists ==
    {Absent, NoneVal, Some(<<>>)}
        \cup {Some(<<r>>) : r \in FrameRows}
        \cup {Some(<<RowB, r>>) : r \in FrameRows}

\* header lists of a report; the names of one report are distinct
FrameDimensions == {<<>>, <<"date">>, <<"date", "sourceMedium">>}
FrameMetrics == {<<>>, <<[name |-> "sessions"]>>,
                 <<[name |-> "sessions"], [name |-> "users"]>>}

FrameReports ==
    {Report(d, m, r, NoToken) :
        d \in FrameDimensions, m \in FrameMetrics, r \in FrameRowLists}

\* a response with no report, one report, or two
FrameResponses ==
    {[reports |-> <<>>]}
        \cup {[reports |-> <<r>>] : r \in FrameReports}
        \cup {[reports |-> <<Report(<<"date">>, <<>>, Some(<<RowA>>), NoToken), r>>] :
                 r \in FrameReports}

InitFrame ==
    /\ pc = "done"
    /\ args \in {a \in Calls : a.page_size = DefaultPageSize /\ a.next_page_token = NoToken}
    /\ response = [reports |-> <<>>]
    /\ rows = NoneVal
    /\ next_page_token = NoToken
    /\ requests = <<>>
    /\ pages = <<>>
    /\ result \in FrameResponses
    /\ raised = ""
    /\ frame = <<>>
    /\ original = <<>>
    /\ applications = 0

NextFrame == ResponseToDataFrame

SpecFrame == InitFrame /\ [][NextFrame]_vars

----------------------------------------------------------------------------
(* del_ga *)

\* length of the prefix 'ga:'
PrefixLen == 3

GaPrefix == <<"g", "a", ":">>

\* del_ga: the response with its header names rewritten
del_ga(resp) ==
    [resp EXCEPT
        !.reports[1].columnHeader.dimensions =
            [i \in 1..Len(@) |-> SliceFrom(@[i], PrefixLen)],
        !.reports[1].columnHeader.metricHeader.metricHeaderEntries =
            [j \in 1..Len(@) |->
                IF SliceTo(@[j].name, PrefixLen) = GaPrefix
                THEN [name |-> SliceFrom(@[j].name, PrefixLen)]
                ELSE @[j]]]

\* header names as character sequences
Names == SeqsUpTo({"g", "a", ":"}, MaxLen)

GaA == <<"g", "a", ":", "a">>

HeaderNames(resp) ==
    [dimensions |-> resp.reports[1].columnHeader.dimensions,
     metrics |-> MetricNames(resp.reports[1].columnHeader.metricHeader.metricHeaderEntries)]

InitDelGa ==
    /\ pc = "done"
    /\ args \in {a \in Calls : a.page_size = DefaultPageSize /\ a.next_page_token = NoToken}
    /\ response = [reports |-> <<>>]
    /\ rows = NoneVal
    /\ next_page_token = NoToken
    /\ requests = <<>>
    /\ pages = <<>>
    /\ \E d \in Names, m \in Names :
        result = [reports |-> <<Report(<<d, GaA>>, <<[name |-> m], [name |-> GaA]>>,
                                       Some(<<>>), NoToken)>>]
    /\ raised = ""
    /\ frame = <<>>
    /\ original = HeaderNames(result)
    /\ applications = 0

\* report = del_ga(report)
DelGa ==
    /\ pc = "done"
    /\ applications < MaxApply
    /\ result' = del_ga(result)
    /\ applications' = applications + 1
    /\ UNCHANGED <<pc, args, response, rows, next_page_token, requests, pages,
                   raised, frame, original>>

NextDelGa == DelGa

SpecDelGa == InitDelGa /\ [][NextDelGa]_vars

----------------------------------------------------------------------------
(* Properties of get_full_report, checked under Spec *)

\* the rows one answer of the service carries: none when it failed, none
\* when the page has no rows key
RowsOfPage(answer) ==
    IF answer.fails THEN <<>>
    ELSE GetDefault(answer.body.reports[1].data.rows, <<>>).val

TokenOfPage(answer) == answer.body.reports[1].nextPageToken

HeadersOf(report) ==
    [dimensions |-> report.columnHeader.dimensions,
     metrics |-> report.columnHeader.metricHeader.metricHeaderEntries]

\* the concatenation of a sequence of sequences
RECURSIVE Flatten(_)
Flatten(ss) == IF ss = <<>> THEN <<>> ELSE Head(ss) \o Flatten(Tail(ss))

\* the rows of all fetched pages, in page order
AllRows == Flatten([k \in 1..Len(pages) |-> RowsOfPage(pages[k])])

Returned == pc \in {"done", "framed", "frame_raised"}

\* the service answered N >= 1 pages, all but the last with a token
AnsweredNPages ==
    /\ Len(pages) >= 1
    /\ \A k \in 1..Len(pages) : ~pages[k].fails
    /\ \A k \in 1..(Len(pages) - 1) : TokenOfPage(pages[k]).key = "value"
    /\ TokenOfPage(pages[Len(pages)]).key = "none"

\* the row sequence of a returned response, None read as no rows
ReturnedRows == Get(result.reports[1].data.rows).val

\* C1: when the service answers N >= 1 pages of which only the last has no
\* continuation token, get_full_report raises nothing and returns the
\* concatenation of the rows of pages 1..N in page order after exactly N
\* fetch calls.
C1_PaginationCompleteness ==
    AnsweredNPages =>
        /\ pc # "raised"
        /\ Returned =>
            /\ ReturnedRows = AllRows
            /\ Len(requests) = Len(pages)

\* C2: when the fetch of page k fails, get_full_report ends with that error:
\* the failing fetch is the last one, and neither a response nor a table is
\* produced.
C2_FetchFailureAborts ==
    \A k \in 1..Len(pages) :
        pages[k].fails =>
            /\ k = Len(pages)
            /\ Len(requests) = k
            /\ pc = "raised"
            /\ raised = "HttpError"
            /\ result = [reports |-> <<>>]
            /\ frame = <<>>

\* C2 witness: page 2 fails after page 1 delivered rows
C2_Witness ==
    /\ pc = "raised"
    /\ Len(pages) = 2
    /\ pages[2].fails
    /\ rows = Some(<<RowA>>)

NullOrEmpty(token) == token.key = "none" \/ token.val = ""

\* C4 as stated: a further fetch follows a page only when that page's token
\* is neither null nor the empty string.
C4_NoFetchAfterNullOrEmptyToken ==
    \A k \in 1..(Len(pages) - 1) : ~NullOrEmpty(TokenOfPage(pages[k]))

\* C4 amended: a further fetch follows a page only when that page's token is
\* not null (the empty string counts as a token), and the loop ends only
\* after a page whose token is null.
C4_NoFetchAfterNullToken ==
    /\ \A k \in 1..(Len(pages) - 1) : TokenOfPage(pages[k]).key = "value"
    /\ Returned => TokenOfPage(pages[Len(pages)]).key = "none"

\* C4 witness: a page with an empty-string token was followed by a fetch
\* that carried it, and the loop ended after a page with a null token
C4_Witness ==
    /\ pc = "done"
    /\ Len(pages) = 2
    /\ TokenOfPage(pages[1]) = Token("")
    /\ requests[2].pageToken = Token("")
    /\ TokenOfPage(pages[2]) = NoToken

\* the query fields of a request body
QueryOf(body) == [body EXCEPT !.pageToken = NoToken]

\* fetches are issued one at a time, each after the answer to the one before,
\* with the token of that answer and the query of the first fetch
Chained ==
    /\ Len(requests) = Len(pages)
    /\ \A k \in 1..(Len(requests) - 1) :
        /\ ~pages[k].fails
        /\ requests[k + 1].pageToken = TokenOfPage(pages[k])
    /\ \A k \in 1..Len(requests) :
        /\ QueryOf(requests[k]) = QueryOf(requests[1])
        /\ requests[k].viewId = args.profile_id
        /\ requests[k].dimensions = args.dimensions
        /\ requests[k].metrics = args.metrics
        /\ requests[k].dimensionFilterClauses = <<args.filters>>
        /\ requests[k].dateRanges =
               <<[startDate |-> args.date_from, endDate |-> args.date_to]>>
        /\ requests[k].pageSize = args.page_size

\* C10 as stated: the fetches are chained and the first carries no token.
C10_ChainedFromNoToken ==
    /\ Chained
    /\ Len(requests) >= 1 => requests[1].pageToken = NoToken

\* C10 amended: the fetches are chained and the first carries the
\* next_page_token argument of the call, which is none unless the caller
\* passes one.
C10_ChainedFromArgument ==
    /\ Chained
    /\ Len(requests) >= 1 => requests[1].pageToken = args.next_page_token

\* C10 witness: three chained fetches of a call with page size 500 that was
\* given a token
C10_Witness ==
    /\ Len(requests) = 3
    /\ args.page_size = 500
    /\ args.next_page_token = Token("t0")
    /\ requests[1].pageToken = Token("t0")
    /\ requests[2].pageToken = Token("t1")
    /\ requests[3].pageToken = Token("")

\* C6: the table built from the result of get_full_report has one record per
\* row of the fetched pages, in row order.
C6_OneRecordPerRow ==
    pc = "framed" =>
        /\ Len(frame) = Len(AllRows)
        /\ \A i \in 1..Len(frame) :
            frame[i] = df_row(result.reports[1].columnHeader.dimensions,
                              result.reports[1].columnHeader.metricHeader.metricHeaderEntries,
                              AllRows[i])

\* C6 witness: a table of three records from two pages
C6_Witness ==
    /\ pc = "framed"
    /\ Len(pages) = 2
    /\ RowsOfPage(pages[1]) = <<RowB, RowA>>
    /\ RowsOfPage(pages[2]) = <<RowA>>
    /\ Len(frame) = Len(<<RowB, RowA, RowA>>)

\* C9: when the fetched pages carry no rows, response_to_data_frame on the
\* result of get_full_report raises nothing and gives a table of zero records.
C9_EmptyRowsEmptyTable ==
    (pc \in {"framed", "frame_raised"} /\ AllRows = <<>>) =>
        /\ pc = "framed"
        /\ frame = <<>>

----------------------------------------------------------------------------
(* Properties of response_to_data_frame, checked under SpecFrame *)

\* the report whose rows end up in the table, and its parts
FramedReport == result.reports[Len(result.reports)]
FramedRows == GetDefault(FramedReport.data.rows, <<>>).val
FramedDimensions == FramedReport.columnHeader.dimensions
FramedMetrics == MetricNames(FramedReport.columnHeader.metricHeader.metricHeaderEntries)

LastGroup(row) == row.metrics[Len(row.metrics)].values

\* C7: for a row with two or more metric-value groups, the record's value for
\* a metric header is the value at the header's position in the last group.
C7_LastGroupWins ==
    pc = "framed" =>
        /\ Len(frame) = Len(FramedRows)
        /\ \A i \in 1..Len(FramedRows) :
            Len(FramedRows[i].metrics) >= 2 =>
                \A j \in 1..Min(Len(FramedMetrics), Len(LastGroup(FramedRows[i]))) :
                    /\ FramedMetrics[j] \in DOMAIN frame[i]
                    /\ frame[i][FramedMetrics[j]] = LastGroup(FramedRows[i])[j]

\* C7 witness: the second group overwrote the value of the first
C7_Witness ==
    /\ pc = "framed"
    /\ Len(FramedRows) = 1
    /\ FramedMetrics = <<"sessions", "users">>
    /\ FramedRows[1].metrics = <<Group(<<"1", "2", "3">>), Group(<<"2", "1">>)>>
    /\ frame[1]["sessions"] = "2"
    /\ frame[1]["users"] = "1"

\* positions of the metric headers that some group of the row has a value for
PairedMetrics(row) ==
    {j \in 1..Len(FramedMetrics) :
        \E g \in 1..Len(row.metrics) : j <= Len(row.metrics[g].values)}

PairedDimensions(row) == 1..Min(Len(FramedDimensions), Len(row.dimensions))

\* C8: a record pairs headers with values by position up to the length of
\* the shorter sequence, has no other key, and a length mismatch raises
\* nothing.
C8_PositionalPairing ==
    /\ pc = "framed" =>
        /\ Len(frame) = Len(FramedRows)
        /\ \A i \in 1..Len(FramedRows) :
            LET row == FramedRows[i] IN
            /\ DOMAIN frame[i] =
                   {FramedDimensions[k] : k \in PairedDimensions(row)}
                       \cup {FramedMetrics[j] : j \in PairedMetrics(row)}
            /\ \A k \in PairedDimensions(row) :
                   frame[i][FramedDimensions[k]] = row.dimensions[k]
            /\ \A j \in PairedMetrics(row) :
                   \E g \in 1..Len(row.metrics) :
                       /\ j <= Len(row.metrics[g].values)
                       /\ frame[i][FramedMetrics[j]] = row.metrics[g].values[j]
    /\ pc = "frame_raised" =>
           \/ Len(result.reports) = 0
           \/ \E r \in 1..Len(result.reports) : result.reports[r].data.rows.key = "none"

\* C8 witness: more dimension values than dimension headers, fewer metric
\* values than metric headers
C8_Witness ==
    /\ pc = "framed"
    /\ Len(FramedRows) = 1
    /\ FramedDimensions = <<"date">>
    /\ FramedMetrics = <<"sessions", "users">>
    /\ FramedRows[1] = Row(<<"2", "1">>, <<Group(<<"1">>)>>)
    /\ frame[1] = [date |-> "2", sessions |-> "1"]

----------------------------------------------------------------------------
(* Properties of del_ga, checked under SpecDelGa *)

\* a name without its 'ga:' prefix; a name without the prefix as it is
StripGa(name) ==
    IF Len(name) >= PrefixLen /\ SubSeq(name, 1, PrefixLen) = GaPrefix
    THEN SubSeq(name, PrefixLen + 1, Len(name))
    ELSE name

StripAll(names) == [i \in 1..Len(names) |-> StripGa(names[i])]

\* C5: del_ga removes 'ga:' from the header names that start with it and
\* leaves the others as they are, and a second application changes nothing.
C5_StripsOnlyThePrefix ==
    applications >= 1 =>
        /\ HeaderNames(result).dimensions = StripAll(original.dimensions)
        /\ HeaderNames(result).metrics = StripAll(original.metrics)

====
